---- MODULE Spec2Model ----
(***************************************************************************)
(* A model of sunbeam's terminal user interface and of its commands.       *)
(*                                                                         *)
(*   - the navigation stack (tui.Model): a root page, a stack of pushed    *)
(*     pages and the event loop's handler Model.Update;                    *)
(*   - the root list's history-aware comparator (NewRootList);             *)
(*   - the root items' run action, which records the history and emits a   *)
(*     push-page message;                                                  *)
(*   - loadHistory and the ids of the root items;                          *)
(*   - sunbeam run: the resolution of an origin to the command to run;     *)
(*   - the commands of the extensions (NewCustomCmd, Execute);             *)
(*   - sunbeam filter: safeGet and the list item of a row.                 *)
(*                                                                         *)
(* The bubbletea runtime is not part of the repository.  It is modelled by *)
(* its contract: Update handles one message at a time and returns a        *)
(* command; the command tea.Quit ends the event loop; any other command is *)
(* deferred work that later delivers one message.                          *)
(***************************************************************************)
EXTENDS Integers, Sequences, FiniteSets, Bags, TLC

VARIABLES
    width, height,   \* Model.width, Model.height
    root,            \* Model.root
    pages,           \* Model.pages
    hidden,          \* Model.hidden
    exit,            \* Model.exit
    quit,            \* tea.Quit has been returned: the event loop ends
    lastMsg,         \* the message handled by the latest call of Update
    lastCmd,         \* the command returned by the latest call of Update
    lastCall,        \* the capability call made by the latest Update, and its error
    pending,         \* bag of the deferred work returned and not yet completed
    navLog,          \* history variable: the push/pop events handled so far
    popRun,          \* history variable: number of pop events handled in a row
    preRun,          \* history variable: stack length and message before that run
    errSeen,         \* history variable: an error event has been handled
    history,         \* NewRootList's history map: item id -> Unix seconds
    listItems,       \* the items given to list.SetItems, in insertion order
    shown,           \* the items in the order the root list shows them
    now,             \* time.Now().Unix()
    dirExists,       \* the state directory exists
    file,            \* the history file: what a read of it finds
    rpc,             \* run action k: the place its Cmd has reached
    ritem,           \* run action k: the root item it was built for
    rstamp,          \* run action k: the value of time.Now().Unix()
    rdata,           \* run action k: the bytes json.Marshal returned
    rlog,            \* history variable: run action k's effects, in order
    outbox,          \* run action k: the messages its Cmd has returned
    crashed,         \* the Go runtime has ended the process (fatal error)
    loaded,          \* loadHistory has returned
    extensionMap,    \* NewRootList's extensionMap: name -> titles of its root items
    additionalItems, \* NewRootList's additionalItems
    rootItems,       \* the rootItems NewRootList has built
    runArgs,         \* sunbeam run: args, the origin first
    runInput,        \* sunbeam run: the input read from stdin
    runEnv,          \* sunbeam run: what the network and the file system answer
    runRet,          \* sunbeam run: what RunE has done and returned
    extensions,      \* Execute: the extensions LoadExtensions returned
    execRet,         \* Execute: what it has registered and returned
    tokens,          \* filter: the tokens of a row
    nths,            \* filter: the indexes given by --with-nth
    listItem         \* filter: the list item built from the row

modelVars == <<width, height, root, pages, hidden, exit, quit>>
loopVars  == <<lastMsg, lastCmd, lastCall, pending>>
ghostVars == <<navLog, popRun, preRun, errSeen>>
navVars   == <<modelVars, loopVars, ghostVars>>
listVars  == <<listItems, shown>>
runVars   ==
    <<now, dirExists, file, rpc, ritem, rstamp, rdata, rlog, outbox, crashed>>
rootVars  == <<extensionMap, additionalItems, rootItems>>
runCmdVars == <<runArgs, runInput, runEnv, runRet>>
execVars  == <<extensions, execRet>>
filterVars == <<tokens, nths, listItem>>
cmdVars   == <<loaded, rootVars, runCmdVars, execVars, filterVars>>

----------------------------------------------------------------------------
(* Bounds and input sets *)

MaxLoad    == 3     \* pages on the stack plus deferred work outstanding
MaxNav     == 4     \* push/pop events recorded in navLog

PageNames == <<"p1", "p2", "p3", "p4", "p5", "p6">>   \* page objects, by creation
Sizes     == {<<80, 24>>, <<120, 40>>}     \* the terminal sizes of a resize
Errors    == {"denied"}                    \* error texts
CallErrs  == {"nil", "denied"}             \* what a capability call returns

\* The history file, by what os.ReadFile and json.Unmarshal find in it: the
\* file is missing, cannot be read, holds bytes that are no JSON text, holds
\* a JSON value that is no object, or holds a JSON object.  An object has
\* the members whose value is an integer (ints) and the names of the members
\* whose value is something else (others).
MissingFile == [kind |-> "missing", ints |-> <<>>, others |-> {}]

ObjectFile(ints, others) == [kind |-> "object", ints |-> ints, others |-> others]

----------------------------------------------------------------------------
(* Pages.  A page is the state the Page interface exposes: which object   *)
(* it is, its variant, what it shows and its size.                        *)

NewList(title) ==
    [name |-> title, kind |-> "list", content |-> "items", w |-> 0, h |-> 0]

NewDetail(title) ==
    [name |-> title, kind |-> "detail", content |-> "", w |-> 0, h |-> 0]

NewCommandRunner(name) ==
    [name |-> name, kind |-> "runner", content |-> "loading", w |-> 0, h |-> 0]

\* Page.SetSize(width, height)
PageSetSize(page, w, h) == [page EXCEPT !.w = w, !.h = h]

\* detail.viewport.SetContent(text)
SetContent(page, text) == [page EXCEPT !.content = text]

\* Page.View(): the text a page renders is determined by its state
PageView(page) == <<page.kind, page.name, page.content, page.w, page.h>>

NoCmd   == [type |-> "none"]
QuitCmd == [type |-> "quit"]

\* NewErrorCmd(err): deferred work that delivers err as a message
NewErrorCmd(text) == [type |-> "error", text |-> text]

\* Page.Init(): a command runner starts its extension; lists and details
\* have nothing to load
PageInit(page) ==
    IF page.kind = "runner" THEN [type |-> "init", page |-> page.name] ELSE NoCmd

\* Page.Update(msg): a command runner that receives its result returns a
\* list of the result's items, or a detail showing the failure, of its size
PageUpdate(page, msg) ==
    IF msg.type = "result" /\ page.kind = "runner"
    THEN IF msg.ok
         THEN <<[page EXCEPT !.kind = "list", !.content = "items"], NoCmd>>
         ELSE <<SetContent(PageSetSize(NewDetail("Error"), page.w, page.h),
                           "denied"), NoCmd>>
    ELSE <<page, NoCmd>>

----------------------------------------------------------------------------
(* Model *)

\* NewModel(root)
NewModel(r) ==
    [width |-> 0, height |-> 0, root |-> r, pages |-> <<>>,
     hidden |-> FALSE, exit |-> FALSE]

\* Model.pageHeight()
pageHeight(h) == h

\* the page Update forwards to and View renders
ActivePage(r, ps) == IF Len(ps) = 0 THEN r ELSE ps[Len(ps)]

\* Model.View()
View ==
    IF hidden THEN ""
    ELSE IF Len(pages) > 0 THEN PageView(pages[Len(pages)])
    ELSE PageView(root)

\* Model.SetSize: the root and every page of the stack
SetSizeRoot(r, w, h) == PageSetSize(r, w, pageHeight(h))

SetSizePagesActiveOnly(ps, w, h) ==
    [i \in 1..Len(ps) |->
        IF i = Len(ps) THEN PageSetSize(ps[i], w, pageHeight(h)) ELSE ps[i]]

SetSizePages(ps, w, h) ==
    [i \in 1..Len(ps) |-> PageSetSize(ps[i], w, pageHeight(h))]

\* Model.Push: the new stack
PushUnsized(ps, page, w, h) == Append(ps, page)

Push(ps, page, w, h) == Append(ps, PageSetSize(page, w, pageHeight(h)))

\* Model.Pop: the new stack
PopBottom(ps) == IF Len(ps) > 0 THEN SubSeq(ps, 2, Len(ps)) ELSE ps

Pop(ps) == IF Len(ps) > 0 THEN SubSeq(ps, 1, Len(ps) - 1) ELSE ps

\* Model.SetSize
SetSize(m, w, h) ==
    [m EXCEPT !.width = w, !.height = h,
              !.root = SetSizeRoot(m.root, w, h),
              !.pages = SetSizePages(m.pages, w, h)]

----------------------------------------------------------------------------
(* Model.Update, one operator for each case of its type switch.  Each     *)
(* yields the model after the call and the command returned.              *)

\* the code after the switch: the message goes to the active page
UpdateForward(m, msg) ==
    IF Len(m.pages) = 0
    THEN LET r == PageUpdate(m.root, msg)
         IN  <<[m EXCEPT !.root = r[1]], r[2]>>
    ELSE LET currentPageIdx == Len(m.pages)
             r == PageUpdate(m.pages[currentPageIdx], msg)
         IN  <<[m EXCEPT !.pages[currentPageIdx] = r[1]], r[2]>>

\* case tea.KeyMsg
UpdateKey(m, msg) ==
    IF msg.key = "ctrl+c"
    THEN <<[m EXCEPT !.hidden = TRUE, !.exit = TRUE], QuitCmd>>
    ELSE UpdateForward(m, msg)

\* case tea.WindowSizeMsg
UpdateWindowSize(m, msg) == <<SetSize(m, msg.w, msg.h), NoCmd>>

\* case OpenUrlMsg; err is what browser.OpenURL returned
UpdateOpenUrlQuits(m, msg, err) == <<[m EXCEPT !.hidden = TRUE], QuitCmd>>

UpdateOpenUrl(m, msg, err) ==
    IF err # "nil"
    THEN <<m, NewErrorCmd(err)>>
    ELSE <<[m EXCEPT !.hidden = TRUE], QuitCmd>>

\* fmt.Errorf("failed to copy text to clipboard: %s", err)
CopyError(err) == "failed to copy text to clipboard: " \o err

\* case CopyTextMsg; err is what clipboard.WriteAll returned
UpdateCopyText(m, msg, err) ==
    IF err # "nil"
    THEN <<m, NewErrorCmd(CopyError(err))>>
    ELSE <<[m EXCEPT !.hidden = TRUE], QuitCmd>>

\* case PushPageMsg, case pushMsg
UpdatePush(m, msg) ==
    <<[m EXCEPT !.pages = Push(m.pages, msg.page, m.width, m.height)],
      PageInit(msg.page)>>

\* case popMsg
UpdatePopRaises(m, msg) ==
    IF Len(m.pages) = 0
    THEN <<m, NewErrorCmd("empty stack")>>
    ELSE <<[m EXCEPT !.pages = Pop(m.pages)], NoCmd>>

UpdatePop(m, msg) ==
    IF Len(m.pages) = 0
    THEN <<m, QuitCmd>>
    ELSE <<[m EXCEPT !.pages = Pop(m.pages)], NoCmd>>

\* case error
UpdateErrorAppends(m, msg) ==
    LET detail == SetContent(
                      PageSetSize(NewDetail("Error"), m.width, pageHeight(m.height)),
                      msg.text)
    IN  <<[m EXCEPT !.pages = Append(m.pages, detail)], PageInit(detail)>>

UpdateErrorQuits(m, msg) ==
    LET detail == SetContent(
                      PageSetSize(NewDetail("Error"), m.width, pageHeight(m.height)),
                      msg.text)
    IN  IF Len(m.pages) = 0
        THEN <<[m EXCEPT !.root = detail], QuitCmd>>
        ELSE <<[m EXCEPT !.pages[Len(m.pages)] = detail], QuitCmd>>

UpdateError(m, msg) ==
    LET detail == SetContent(
                      PageSetSize(NewDetail("Error"), m.width, pageHeight(m.height)),
                      msg.text)
    IN  IF Len(m.pages) = 0
        THEN <<[m EXCEPT !.root = detail], PageInit(detail)>>
        ELSE <<[m EXCEPT !.pages[Len(m.pages)] = detail], PageInit(detail)>>

\* Model.Update
Update(m, msg, err) ==
    CASE msg.type = "key"      -> UpdateKey(m, msg)
      [] msg.type = "resize"   -> UpdateWindowSize(m, msg)
      [] msg.type = "openurl"  -> UpdateOpenUrl(m, msg, err)
      [] msg.type = "copytext" -> UpdateCopyText(m, msg, err)
      [] msg.type = "push"     -> UpdatePush(m, msg)
      [] msg.type = "pop"      -> UpdatePop(m, msg)
      [] msg.type = "error"    -> UpdateError(m, msg)
      [] OTHER                 -> UpdateForward(m, msg)

----------------------------------------------------------------------------
(* The event loop *)

\* the Model as one value
M ==
    [width |-> width, height |-> height, root |-> root, pages |-> pages,
     hidden |-> hidden, exit |-> exit]

Deferred(cmd) == cmd.type \in {"error", "init"}

NameOnStack(n) == \E i \in 1..Len(pages) : pages[i].name = n

NameInFlight(n) ==
    \E c \in BagToSet(pending) : c.type = "init" /\ c.page = n

\* The runtime calls Update(msg) while the loop runs; `call` is the
\* capability call Update makes and what it returns, `rest` the deferred
\* work still outstanding when Update is called.
Handle(msg, call, rest) ==
    /\ ~quit
    /\ \E r \in {Update(M, msg, call.err)} :
       LET m2  == r[1]
           cmd == r[2]
       IN  /\ Len(m2.pages) + BagCardinality(rest) + (IF Deferred(cmd) THEN 1 ELSE 0)
                  <= MaxLoad
           /\ width' = m2.width
           /\ height' = m2.height
           /\ root' = m2.root
           /\ pages' = m2.pages
           /\ hidden' = m2.hidden
           /\ exit' = m2.exit
           /\ quit' = (cmd = QuitCmd)
           /\ lastMsg' = msg
           /\ lastCmd' = cmd
           /\ lastCall' = call
           /\ pending' = IF Deferred(cmd) THEN rest (+) SetToBag({cmd}) ELSE rest
           /\ navLog' = IF navLog.only /\ msg.type \in {"push", "pop"}
                        THEN [navLog EXCEPT !.events = Append(@,
                                 IF msg.type = "push" THEN msg.page.name ELSE "pop")]
                        ELSE [only |-> FALSE, events |-> <<>>]
           /\ popRun' = IF msg.type = "pop" THEN popRun + 1 ELSE 0
           /\ preRun' = IF msg.type = "pop" THEN preRun
                        ELSE [len |-> Len(m2.pages), type |-> msg.type]
           /\ errSeen' = (errSeen \/ msg.type = "error")
           /\ UNCHANGED <<history, listVars, runVars, cmdVars>>

NoCall == [name |-> "none", err |-> "nil"]

\* a key press
KeyMsg ==
    \E k \in {"ctrl+c", "esc"} :
        Handle([type |-> "key", key |-> k], NoCall, pending)

\* the terminal is resized
WindowSizeMsg ==
    \E s \in Sizes :
        Handle([type |-> "resize", w |-> s[1], h |-> s[2]], NoCall, pending)

\* an action opens a URL
OpenUrlMsg ==
    \E err \in CallErrs :
        Handle([type |-> "openurl", url |-> "https://example.org"],
               [name |-> "browser.OpenURL", err |-> err], pending)

\* an action copies a text
CopyTextMsg ==
    \E err \in CallErrs :
        Handle([type |-> "copytext", text |-> "text"],
               [name |-> "clipboard.WriteAll", err |-> err], pending)

\* a page object that is on no stack and has no work outstanding
Fresh(n) == ~NameOnStack(n) /\ ~NameInFlight(n)

\* the page a push carries is a new object: the first name not in use
NewName == PageNames[CHOOSE i \in 1..Len(PageNames) :
                        /\ Fresh(PageNames[i])
                        /\ \A j \in 1..(i - 1) : ~Fresh(PageNames[j])]

CanPush ==
    /\ navLog.only => Len(navLog.events) < MaxNav
    /\ \E i \in 1..Len(PageNames) : Fresh(PageNames[i])

\* a run action's PushPageMsg carries a new command runner
PushPageMsg ==
    /\ CanPush
    /\ Handle([type |-> "push", page |-> NewCommandRunner(NewName)], NoCall, pending)

\* NewPushCmd(c) delivers pushMsg{c}
pushMsg ==
    /\ CanPush
    /\ Handle([type |-> "push", page |-> NewList(NewName)], NoCall, pending)

\* PopCmd delivers popMsg{}
popMsg ==
    /\ navLog.only => Len(navLog.events) < MaxNav
    /\ Handle([type |-> "pop"], NoCall, pending)

\* a page's deferred work fails
errorMsg ==
    \E e \in Errors : Handle([type |-> "error", text |-> e], NoCall, pending)

\* the work of NewErrorCmd completes: its error is delivered
DeliverError ==
    \E c \in BagToSet(pending) :
        /\ c.type = "error"
        /\ Handle([type |-> "error", text |-> c.text], NoCall,
                  pending (-) SetToBag({c}))

\* a command runner's init work completes: its result is delivered
DeliverResult ==
    \E c \in BagToSet(pending), ok \in BOOLEAN :
        /\ c.type = "init"
        /\ Handle([type |-> "result", page |-> c.page, ok |-> ok], NoCall,
                  pending (-) SetToBag({c}))

InitModel ==
    /\ LET m == NewModel(NewList("Sunbeam"))
       IN  /\ width = m.width
           /\ height = m.height
           /\ root = m.root
           /\ pages = m.pages
           /\ hidden = m.hidden
           /\ exit = m.exit
    /\ quit = FALSE
    /\ lastMsg = [type |-> "none"]
    /\ lastCmd = PageInit(NewList("Sunbeam"))
    /\ lastCall = NoCall
    /\ pending = EmptyBag
    /\ navLog = [only |-> TRUE, events |-> <<>>]
    /\ popRun = 0
    /\ preRun = [len |-> 0, type |-> "none"]
    /\ errSeen = FALSE

\* the list and the run actions before NewRootList has built them
InitIdle ==
    /\ history = <<>>
    /\ listItems = <<>>
    /\ shown = <<>>
    /\ now = 0
    /\ dirExists = FALSE
    /\ file = MissingFile
    /\ rpc = <<>>
    /\ ritem = <<>>
    /\ rstamp = <<>>
    /\ rdata = <<>>
    /\ rlog = <<>>
    /\ outbox = <<>>
    /\ crashed = FALSE

\* the parts of the program that the user interface does not run
LoadIdle == loaded = FALSE

RootIdle ==
    /\ extensionMap = <<>>
    /\ additionalItems = <<>>
    /\ rootItems = <<>>

RunCmdIdle ==
    /\ runArgs = <<>>
    /\ runInput = ""
    /\ runEnv = <<>>
    /\ runRet = <<>>

ExecIdle ==
    /\ extensions = <<>>
    /\ execRet = <<>>

FilterIdle ==
    /\ tokens = <<>>
    /\ nths = <<>>
    /\ listItem = <<>>

\* every part is idle but the one named
CmdIdleExcept(part) ==
    /\ IF part = "load" THEN TRUE ELSE LoadIdle
    /\ IF part = "root" THEN TRUE ELSE RootIdle
    /\ IF part = "run" THEN TRUE ELSE RunCmdIdle
    /\ IF part = "exec" THEN TRUE ELSE ExecIdle
    /\ IF part = "filter" THEN TRUE ELSE FilterIdle

InitCmdIdle == CmdIdleExcept("none")

Next ==
    \/ KeyMsg
    \/ WindowSizeMsg
    \/ OpenUrlMsg
    \/ CopyTextMsg
    \/ PushPageMsg
    \/ pushMsg
    \/ popMsg
    \/ errorMsg
    \/ DeliverError
    \/ DeliverResult

vars == <<navVars, history, listVars, runVars, cmdVars>>

Init == InitModel /\ InitIdle /\ InitCmdIdle

Spec == Init /\ [][Next]_vars

----------------------------------------------------------------------------
(* Navigation: the active page *)

\* the push at position i of a log of push/pop events has not been popped:
\* no stretch of events after it holds more pops than pushes
Pops(log, i, j)   == Cardinality({k \in i..j : log[k] = "pop"})
Pushes(log, i, j) == Cardinality({k \in i..j : log[k] # "pop"})

Unpopped(log, i) ==
    /\ log[i] # "pop"
    /\ \A j \in (i + 1)..Len(log) : Pops(log, i + 1, j) <= Pushes(log, i + 1, j)

\* the name of the most recently pushed page not yet popped, or the root's
LastUnpopped(log) ==
    IF \E i \in 1..Len(log) : Unpopped(log, i)
    THEN log[CHOOSE i \in 1..Len(log) :
                 /\ Unpopped(log, i)
                 /\ \A k \in (i + 1)..Len(log) : ~Unpopped(log, k)]
    ELSE "Sunbeam"

\* C1: after any sequence of push-page and pop events from the root-only
\* state, the page that View renders and that other events are forwarded to
\* is the most recently pushed page that has not been popped, or the root
\* page when every pushed page has been popped.
C1_ActiveIsLastUnpopped ==
    navLog.only =>
        /\ ~hidden
        /\ View = PageView(ActivePage(root, pages))
        /\ View[2] = LastUnpopped(navLog.events)
        /\ ActivePage(root, pages).name = LastUnpopped(navLog.events)

C1_Witness ==
    /\ navLog.only
    /\ Len(navLog.events) = 4
    /\ navLog.events[3] = "pop"
    /\ Len(pages) = 2

----------------------------------------------------------------------------
(* Resize *)

AllSized(w, h) ==
    /\ root.w = w /\ root.h = h
    /\ \A i \in 1..Len(pages) : pages[i].w = w /\ pages[i].h = h

\* C2: a resize(w,h) event sets the size of the root page and of every page
\* of the stack to (w,h); after any run of pop events that follows it, every
\* remaining page, the active one included, still has that size.
C2_ResizeReachesEveryPage ==
    /\ lastMsg.type = "resize" =>
           /\ width = lastMsg.w /\ height = lastMsg.h
           /\ AllSized(lastMsg.w, lastMsg.h)
    /\ preRun.type = "resize" =>
           /\ AllSized(width, height)
           /\ ActivePage(root, pages).w = width
           /\ ActivePage(root, pages).h = height

C2_Witness ==
    /\ preRun.type = "resize"
    /\ preRun.len = 2
    /\ popRun = 1
    /\ width = 80 /\ height = 24
    /\ Len(pages) = 1
    /\ pages[1].w = 80 /\ pages[1].h = 24

----------------------------------------------------------------------------
(* Errors *)

ErrorDetail(text, w, h) ==
    [name |-> "Error", kind |-> "detail", content |-> text, w |-> w, h |-> h]

\* C3: an error event replaces exactly the active page by a Detail page that
\* shows the error text; the loop goes on, the stack keeps its length and
\* every other page is unchanged.
C3_ErrorReplacesActivePage ==
    [][lastMsg'.type = "error" =>
          /\ ~quit' /\ lastCmd' # QuitCmd
          /\ Len(pages') = Len(pages)
          /\ hidden' = hidden /\ exit' = exit
          /\ width' = width /\ height' = height
          /\ IF Len(pages) = 0
             THEN root' = ErrorDetail(lastMsg'.text, width, height)
             ELSE /\ pages'[Len(pages)] = ErrorDetail(lastMsg'.text, width, height)
                  /\ root' = root
                  /\ \A i \in 1..(Len(pages) - 1) : pages'[i] = pages[i]]_vars

C3_Witness ==
    /\ lastMsg.type = "error"
    /\ Len(pages) = 2
    /\ pages[2] = ErrorDetail("denied", width, height)
    /\ pages[1].kind # "detail"
    /\ root.kind = "list"
    /\ ~quit

\* C4: an open-url or copy-text event whose capability call succeeds hides
\* the model and ends the loop; when the call fails the loop goes on, the
\* model stays visible, the root and the stack are unchanged and exactly one
\* error event carrying the failure is scheduled.
C4_CapabilityOutcome ==
    [][lastMsg'.type \in {"openurl", "copytext"} =>
          IF lastCall'.err = "nil"
          THEN hidden' /\ quit' /\ lastCmd' = QuitCmd /\ pending' = pending
          ELSE /\ ~quit' /\ ~hidden'
               /\ root' = root /\ pages' = pages
               /\ lastCmd' = [type |-> "error",
                              text |-> IF lastMsg'.type = "openurl"
                                       THEN lastCall'.err
                                       ELSE "failed to copy text to clipboard: denied"]
               /\ pending' = pending (+) SetToBag({lastCmd'})
               /\ BagCardinality(pending') = BagCardinality(pending) + 1]_vars

C4_Witness ==
    /\ lastMsg.type = "copytext"
    /\ lastCall.err = "denied"
    /\ ~quit /\ ~hidden
    /\ Len(pages) = 1
    /\ BagIn(NewErrorCmd("failed to copy text to clipboard: denied"), pending)

----------------------------------------------------------------------------
(* Termination *)

\* C5: whenever an event ends the loop, the model is hidden, so that View
\* renders nothing, and marked as exiting.
C5_TerminalIsHiddenAndExiting ==
    quit => hidden /\ exit

\* C6: a pop event with an empty stack ends the loop with tea.Quit, not with
\* an error, and changes neither the root nor the stack; with a non-empty
\* stack it removes exactly the top page and the loop goes on.
C6_PopEmptyQuits ==
    [][lastMsg'.type = "pop" =>
          IF Len(pages) = 0
          THEN /\ quit' /\ lastCmd' = QuitCmd
               /\ root' = root /\ pages' = <<>>
               /\ pending' = pending
          ELSE /\ ~quit' /\ lastCmd' = NoCmd
               /\ Len(pages') = Len(pages) - 1
               /\ \A i \in 1..Len(pages') : pages'[i] = pages[i]
               /\ root' = root]_vars

C6_Witness ==
    /\ lastMsg.type = "pop"
    /\ popRun = 3
    /\ preRun.len = 2
    /\ quit
    /\ lastCmd = QuitCmd
    /\ pages = <<>>

\* C7: errors never block navigation or exit.  Handling an error event does
\* not end the loop; once an error has been handled, a push still makes the
\* pushed page active, and a run of pop events started with N pages on the
\* stack ends the loop with tea.Quit at its pop number N+1, and not before.
C7_ErrorsNeverBlockExit ==
    /\ lastMsg.type = "error" => ~quit /\ lastCmd # QuitCmd
    /\ errSeen /\ lastMsg.type = "push" =>
           /\ ~quit
           /\ ActivePage(root, pages).name = lastMsg.page.name
    /\ errSeen /\ popRun > 0 =>
           /\ popRun <= preRun.len + 1
           /\ quit <=> (popRun = preRun.len + 1)
           /\ quit => lastCmd = QuitCmd
           /\ ~quit => Len(pages) = preRun.len - popRun

C7_Witness ==
    /\ errSeen
    /\ preRun.type = "error"
    /\ preRun.len = 2
    /\ popRun = 3
    /\ quit

----------------------------------------------------------------------------
(* Push *)

\* C8: a push-page event resizes the page to the model's width and height,
\* appends it to the stack and makes it the active page within the event;
\* only the page's init work is returned, and it is still outstanding while
\* View already renders the pushed page.
C8_PushIsSynchronous ==
    lastMsg.type = "push" =>
        LET p == [lastMsg.page EXCEPT !.w = width, !.h = height]
        IN  /\ Len(pages) > 0
            /\ pages[Len(pages)] = p
            /\ ActivePage(root, pages) = p
            /\ ~hidden /\ ~quit
            /\ View = PageView(p)
            /\ lastCmd = PageInit(lastMsg.page)
            /\ p.kind = "runner" =>
                   /\ BagIn([type |-> "init", page |-> p.name], pending)
                   /\ p.content = "loading"

C8_Witness ==
    /\ lastMsg.type = "push"
    /\ lastMsg.page.kind = "runner"
    /\ width = 80 /\ height = 24
    /\ Len(pages) = 2
    /\ pages[2].w = 80 /\ pages[2].h = 24
    /\ BagIn([type |-> "init", page |-> pages[2].name], pending)

----------------------------------------------------------------------------
(* The root list: NewRootList's comparator and the order of the items *)

MaxItems == 3     \* items of the root list

ItemIds == {"git:Status", "git:Log", "config:Notes"}
Stamps  == {0, 10, 20}                     \* timestamps of a history entry

\* the mappings a history can hold: a timestamp for some of the ids
Histories ==
    UNION {[D -> Stamps] : D \in SUBSET ItemIds}

\* ListItem
ListItem(id) == [id |-> id]

\* iValue, ok := history[i.ID()]; if !ok { iValue = 0 }
HistoryValue(h, id) == IF id \in DOMAIN h THEN h[id] ELSE 0

\* list.filter.Less
LessOrEqual(h, i, j) == HistoryValue(h, i.id) >= HistoryValue(h, j.id)

Less(h, i, j) == HistoryValue(h, i.id) > HistoryValue(h, j.id)

\* a stable sort by Less: each item goes before the first item it is Less
\* than, and after every other one
RECURSIVE InsertStable(_, _, _)
InsertStable(h, sorted, x) ==
    IF sorted = <<>> THEN <<x>>
    ELSE IF Less(h, x, sorted[Len(sorted)])
         THEN Append(InsertStable(h, SubSeq(sorted, 1, Len(sorted) - 1), x),
                     sorted[Len(sorted)])
         ELSE Append(sorted, x)

RECURSIVE SortStable(_, _)
SortStable(h, items) ==
    IF items = <<>> THEN <<>>
    ELSE InsertStable(h, SortStable(h, SubSeq(items, 1, Len(items) - 1)),
                      items[Len(items)])

\* NewRootList is called with some history and some root items
InitList ==
    /\ history \in Histories
    /\ \E n \in 0..MaxItems :
           listItems \in [1..n -> {ListItem(id) : id \in ItemIds}]
    /\ shown = <<>>
    /\ now = 0
    /\ dirExists = FALSE
    /\ file = MissingFile
    /\ rpc = <<>>
    /\ ritem = <<>>
    /\ rstamp = <<>>
    /\ rdata = <<>>
    /\ rlog = <<>>
    /\ outbox = <<>>
    /\ crashed = FALSE

\* list.SetItems(listItems): the filter orders the items by Less
SetItems ==
    /\ shown = <<>>
    /\ listItems # <<>>
    /\ shown' = SortStable(history, listItems)
    /\ UNCHANGED <<navVars, history, listItems, runVars, cmdVars>>

InitSort == InitModel /\ InitList /\ InitCmdIdle

SpecSort == InitSort /\ [][SetItems]_vars

IndexPermutations(n) ==
    {f \in [1..n -> 1..n] : \A i, j \in 1..n : i # j => f[i] # f[j]}

\* C9: the root list shows its items by descending last-run timestamp, an
\* item without history entry counting as 0; items with equal timestamps
\* keep their insertion order.
C9_StableByDescendingTimestamp ==
    shown # <<>> =>
        /\ Len(shown) = Len(listItems)
        /\ \E f \in IndexPermutations(Len(listItems)) :
              /\ \A k \in 1..Len(shown) : shown[k] = listItems[f[k]]
              /\ \A k, l \in 1..Len(shown) :
                    k < l =>
                      LET tk == IF shown[k].id \in DOMAIN history
                                THEN history[shown[k].id] ELSE 0
                          tl == IF shown[l].id \in DOMAIN history
                                THEN history[shown[l].id] ELSE 0
                      IN  \/ tk > tl
                          \/ tk = tl /\ f[k] < f[l]

\* never run, run at 10, run at 20 are shown as 20, 10, never
C9_Witness ==
    /\ listItems = <<ListItem("git:Status"), ListItem("git:Log"),
                     ListItem("config:Notes")>>
    /\ DOMAIN history = {"git:Log", "config:Notes"}
    /\ history["git:Log"] = 10
    /\ history["config:Notes"] = 20
    /\ shown = <<ListItem("config:Notes"), ListItem("git:Log"),
                 ListItem("git:Status")>>

----------------------------------------------------------------------------
(* The run action of a root item.  The list returns the action's Cmd when *)
(* the item is selected and the runtime runs every Cmd in a goroutine of   *)
(* its own, so the Cmds of two selections may overlap.  The history map is *)
(* shared by all of them without a lock: when one Cmd writes the map while *)
(* another writes or iterates it, the Go runtime may stop the process      *)
(* ("fatal error: concurrent map writes") or may not notice.               *)

MaxRuns == 2     \* run actions selected
MaxTime == 1     \* the clock's last value

\* rootItems, as NewRootList builds them
RootItems ==
    <<[id |-> "git:Status", extension |-> "git", command |-> "status",
       with |-> "short"],
      [id |-> "config:Notes", extension |-> "notes", command |-> "open",
       with |-> "today"]>>

\* NewCommandRunner(NamedExtension, NamedCommand, rootItem.With, []string{})
RunnerFor(item) ==
    [kind |-> "runner", extension |-> item.extension,
     command |-> item.command, with |-> item.with]

\* loadHistory: os.ReadFile fails for a missing or unreadable file and the
\* new map is returned; otherwise json.Unmarshal(data, &history) fills the
\* map and its error is dropped.  Unmarshal stores nothing when the bytes are
\* no JSON text or the value is no object; for an object it stores every
\* member, one whose value is no integer as the zero value.
loadHistory(f) ==
    IF f.kind = "object" /\ DOMAIN f.ints \cup f.others # {}
    THEN [id \in DOMAIN f.ints \cup f.others |->
             IF id \in DOMAIN f.ints THEN f.ints[id] ELSE 0]
    ELSE <<>>

\* history[rootItem.id] = stamp
HistoryPut(h, id, stamp) ==
    [x \in DOMAIN h \cup {id} |-> IF x = id THEN stamp ELSE h[x]]

\* another Cmd is writing the map
OtherWrites(k) == \E q \in DOMAIN rpc : q # k /\ rpc[q] = "assigning"

\* another Cmd is writing or iterating the map
OtherAccesses(k) ==
    \E q \in DOMAIN rpc : q # k /\ rpc[q] \in {"assigning", "marshalling"}

\* what an access to the map does to the process when it overlaps another
Overlap(racing) == IF racing THEN BOOLEAN ELSE {FALSE}

InitRun ==
    /\ listItems = <<>>
    /\ shown = <<>>
    /\ now = 0
    /\ dirExists \in BOOLEAN
    /\ file = MissingFile
    /\ history = loadHistory(file)
    /\ rpc = [k \in 1..MaxRuns |-> "idle"]
    /\ ritem = [k \in 1..MaxRuns |-> 0]
    /\ rstamp = [k \in 1..MaxRuns |-> 0]
    /\ rdata = [k \in 1..MaxRuns |-> "none"]
    /\ rlog = [k \in 1..MaxRuns |-> <<>>]
    /\ outbox = [k \in 1..MaxRuns |-> <<>>]
    /\ crashed = FALSE

RunFrame == UNCHANGED <<navVars, listVars, cmdVars>>

\* the clock advances
Tick ==
    /\ ~crashed
    /\ now < MaxTime
    /\ now' = now + 1
    /\ RunFrame
    /\ UNCHANGED <<history, dirExists, file, rpc, ritem, rstamp, rdata, rlog,
                   outbox, crashed>>

\* the user selects the run action of root item i: its Cmd is started
SelectRun(k, i) ==
    /\ ~crashed
    /\ rpc[k] = "idle"
    /\ \A q \in 1..(k - 1) : rpc[q] # "idle"
    /\ rpc' = [rpc EXCEPT ![k] = "assign"]
    /\ ritem' = [ritem EXCEPT ![k] = i]
    /\ RunFrame
    /\ UNCHANGED <<history, now, dirExists, file, rstamp, rdata, rlog, outbox,
                   crashed>>

\* history[rootItem.id] = time.Now().Unix(): the clock is read and the write
\* to the map begins
AssignBegin(k) ==
    /\ ~crashed
    /\ rpc[k] = "assign"
    /\ rstamp' = [rstamp EXCEPT ![k] = now]
    /\ rpc' = [rpc EXCEPT ![k] = "assigning"]
    /\ crashed' \in Overlap(OtherAccesses(k))
    /\ RunFrame
    /\ UNCHANGED <<history, now, dirExists, file, ritem, rdata, rlog, outbox>>

\* the write to the map ends
AssignEnd(k) ==
    /\ ~crashed
    /\ rpc[k] = "assigning"
    /\ history' = HistoryPut(history, RootItems[ritem[k]].id, rstamp[k])
    /\ rpc' = [rpc EXCEPT ![k] = "stat"]
    /\ rlog' = [rlog EXCEPT ![k] = Append(@, "record")]
    /\ RunFrame
    /\ UNCHANGED <<now, dirExists, file, ritem, rstamp, rdata, outbox, crashed>>

\* os.Stat(stateDir), and os.MkdirAll when the directory is missing; the
\* error of MkdirAll is dropped
StatDir(k) ==
    /\ ~crashed
    /\ rpc[k] = "stat"
    /\ IF dirExists
       THEN dirExists' = dirExists
       ELSE \E ok \in BOOLEAN : dirExists' = ok
    /\ rlog' = [rlog EXCEPT ![k] = Append(@, "stat")]
    /\ rpc' = [rpc EXCEPT ![k] = "marshal"]
    /\ RunFrame
    /\ UNCHANGED <<history, now, file, ritem, rstamp, rdata, outbox, crashed>>

\* json.Marshal(history) begins to iterate the map
MarshalBegin(k) ==
    /\ ~crashed
    /\ rpc[k] = "marshal"
    /\ rpc' = [rpc EXCEPT ![k] = "marshalling"]
    /\ crashed' \in Overlap(OtherWrites(k))
    /\ RunFrame
    /\ UNCHANGED <<history, now, dirExists, file, ritem, rstamp, rdata, rlog,
                   outbox>>

\* json.Marshal(history) returns the whole mapping
MarshalEnd(k) ==
    /\ ~crashed
    /\ rpc[k] = "marshalling"
    /\ rdata' = [rdata EXCEPT ![k] = history]
    /\ rpc' = [rpc EXCEPT ![k] = "write"]
    /\ rlog' = [rlog EXCEPT ![k] = Append(@, "marshal")]
    /\ RunFrame
    /\ UNCHANGED <<history, now, dirExists, file, ritem, rstamp, outbox, crashed>>

\* os.WriteFile(historyPath, data, 0644); its error is dropped
WriteFile(k) ==
    /\ ~crashed
    /\ rpc[k] = "write"
    /\ \E ok \in BOOLEAN :
          IF ok /\ dirExists
          THEN file' = ObjectFile(rdata[k], {})
          ELSE file' = file
    /\ rlog' = [rlog EXCEPT ![k] = Append(@, "write")]
    /\ rpc' = [rpc EXCEPT ![k] = "emit"]
    /\ RunFrame
    /\ UNCHANGED <<history, now, dirExists, ritem, rstamp, rdata, outbox, crashed>>

\* return PushPageMsg{Page: NewCommandRunner(...)}
EmitPush(k) ==
    /\ ~crashed
    /\ rpc[k] = "emit"
    /\ outbox' = [outbox EXCEPT ![k] =
                      Append(@, [type |-> "push",
                                 page |-> RunnerFor(RootItems[ritem[k]])])]
    /\ rpc' = [rpc EXCEPT ![k] = "done"]
    /\ rlog' = [rlog EXCEPT ![k] = Append(@, "emit")]
    /\ RunFrame
    /\ UNCHANGED <<history, now, dirExists, file, ritem, rstamp, rdata, crashed>>

NextRun ==
    \/ Tick
    \/ \E k \in 1..MaxRuns, i \in 1..Len(RootItems) : SelectRun(k, i)
    \/ \E k \in 1..MaxRuns : AssignBegin(k)
    \/ \E k \in 1..MaxRuns : AssignEnd(k)
    \/ \E k \in 1..MaxRuns : StatDir(k)
    \/ \E k \in 1..MaxRuns : MarshalBegin(k)
    \/ \E k \in 1..MaxRuns : MarshalEnd(k)
    \/ \E k \in 1..MaxRuns : WriteFile(k)
    \/ \E k \in 1..MaxRuns : EmitPush(k)

InitRunAction == InitModel /\ InitRun /\ InitCmdIdle

SpecRun == InitRunAction /\ [][NextRun]_vars

\* the effects of a run action that has returned, in the order of the code
RunOrder == <<"record", "stat", "marshal", "write", "emit">>

\* C10: a run action records history[id] = now, creates the state directory
\* when it is missing, overwrites the history file with the whole mapping and
\* returns exactly one push-page message for a command runner bound to the
\* item's extension, command and parameters, in this order; the message is
\* returned in every execution, whatever fails on the way.
C10_RunAlwaysPushes ==
    \A k \in DOMAIN rpc :
        /\ rpc[k] \notin {"idle", "done"} => ~crashed
        /\ rpc[k] = "done" =>
               /\ rlog[k] = RunOrder
               /\ RootItems[ritem[k]].id \in DOMAIN history
               /\ outbox[k] = <<[type |-> "push",
                                 page |-> RunnerFor(RootItems[ritem[k]])]>>

----------------------------------------------------------------------------
(* History entries over time *)

AllReturned == \A k \in DOMAIN rpc : rpc[k] \in {"idle", "done"}

EntryChanged(id) ==
    \/ (id \in DOMAIN history) # (id \in DOMAIN history')
    \/ id \in DOMAIN history /\ id \in DOMAIN history' /\ history[id] # history'[id]

\* C11: the timestamp recorded for an item never decreases; an entry changes
\* only in the step in which a run action of that item records it; and a run
\* action that fails to save changes no entry: while no run action has saved
\* the history (the file is still missing) and none is under way, the map is
\* as it was loaded.
C11_HistoryOnlyGrowsBySuccessfulRun ==
    /\ [](AllReturned /\ file = MissingFile => history = loadHistory(MissingFile))
    /\ [][\A id \in ItemIds :
            /\ HistoryValue(history', id) >= HistoryValue(history, id)
            /\ EntryChanged(id) =>
                   \E k \in DOMAIN rpc :
                       /\ rpc[k] = "assigning"
                       /\ rpc'[k] = "stat"
                       /\ RootItems[ritem[k]].id = id]_vars

----------------------------------------------------------------------------
(* Loading the history *)

\* what the history file can be
Files ==
    {MissingFile,
     [kind |-> "unreadable", ints |-> <<>>, others |-> {}],
     [kind |-> "garbage", ints |-> <<>>, others |-> {}],
     [kind |-> "value", ints |-> <<>>, others |-> {}]}
    \cup UNION {{ObjectFile(h, o) : o \in SUBSET (ItemIds \ DOMAIN h)} :
                   h \in Histories}

\* the process starts: nothing has been loaded yet
InitLoad ==
    /\ InitModel
    /\ history = <<>>
    /\ file \in Files
    /\ listItems = <<>>
    /\ shown = <<>>
    /\ now = 0
    /\ dirExists = FALSE
    /\ rpc = <<>>
    /\ ritem = <<>>
    /\ rstamp = <<>>
    /\ rdata = <<>>
    /\ rlog = <<>>
    /\ outbox = <<>>
    /\ crashed = FALSE
    /\ CmdIdleExcept("load")
    /\ LoadIdle

\* history := loadHistory(historyPath)
LoadHistory ==
    /\ ~loaded
    /\ history' = loadHistory(file)
    /\ loaded' = TRUE
    /\ UNCHANGED <<navVars, listVars, runVars, rootVars, runCmdVars, execVars,
                   filterVars>>

SpecLoad == InitLoad /\ [][LoadHistory]_vars

\* the file cannot be read or cannot be parsed as a whole
Corrupt(f) == f.kind # "object" \/ f.others # {}

\* C12: loading never fails, and a history file that is missing, unreadable
\* or cannot be parsed as a whole gives the empty mapping: no entry of a
\* corrupt file is in the loaded mapping.
C12_CorruptFileLoadsEmpty ==
    loaded /\ Corrupt(file) => history = <<>>

----------------------------------------------------------------------------
(* The ids of the root items.  A string is the sequence of its pieces, the  *)
(* separator ":" being a piece of its own, so that formatting is            *)
(* concatenation.                                                           *)

MaxRootItems  == 2     \* root items of one extension
MaxAdditional == 2     \* additional root items

ExtensionNames == {<<"git">>, <<"config">>, <<"git", ":", "log">>}
Titles         == {<<"log">>, <<"log", ":", "log">>}

\* fmt.Sprintf("%s:%s", extensionName, rootItem.Title)
ExtensionId(extensionName, title) == extensionName \o <<":">> \o title

\* fmt.Sprintf("config:%s", item.Title)
ConfigId(title) == <<"config", ":">> \o title

\* the orders in which `range extensionMap` can visit the names
RangeOrders(names) ==
    {o \in [1..Cardinality(names) -> names] :
        \A i, j \in 1..Cardinality(names) : i # j => o[i] # o[j]}

\* the first loop: the root items of the extensions, in the order visited
RECURSIVE FromExtensions(_, _)
FromExtensions(em, order) ==
    IF order = <<>> THEN <<>>
    ELSE LET extensionName == order[Len(order)]
             titles == em[extensionName]
         IN  FromExtensions(em, SubSeq(order, 1, Len(order) - 1))
             \o [i \in 1..Len(titles) |->
                    [extension |-> extensionName, title |-> titles[i],
                     id |-> ExtensionId(extensionName, titles[i])]]

\* the second loop: the additional items whose extension is in the map
RECURSIVE FromAdditional(_, _)
FromAdditional(em, items) ==
    IF items = <<>> THEN <<>>
    ELSE LET item == items[Len(items)]
             before == FromAdditional(em, SubSeq(items, 1, Len(items) - 1))
         IN  IF item.extension \notin DOMAIN em
             THEN before
             ELSE Append(before, [extension |-> item.extension,
                                  title |-> item.title,
                                  id |-> ConfigId(item.title)])

\* NewRootList is called with some registry and some additional items
InitRoot ==
    /\ InitModel
    /\ InitIdle
    /\ CmdIdleExcept("root")
    /\ \E names \in SUBSET ExtensionNames :
           extensionMap \in
               [names -> UNION {[1..n -> Titles] : n \in 0..MaxRootItems}]
    /\ \E n \in 0..MaxAdditional :
           additionalItems \in
               [1..n -> [extension : ExtensionNames, title : Titles]]
    /\ rootItems = <<>>

\* NewRootList builds rootItems
BuildRootItems ==
    /\ rootItems = <<>>
    /\ \E order \in RangeOrders(DOMAIN extensionMap) :
           rootItems' = FromExtensions(extensionMap, order)
                        \o FromAdditional(extensionMap, additionalItems)
    /\ UNCHANGED <<navVars, history, listVars, runVars, loaded, extensionMap,
                   additionalItems, runCmdVars, execVars, filterVars>>

SpecRoot == InitRoot /\ [][BuildRootItems]_vars

\* C13: no two root items of the list receive the same id, whatever the
\* registry and the additional items are.
C13_RootIdsUnique ==
    \A i, j \in 1..Len(rootItems) :
        i # j => rootItems[i].id # rootItems[j].id

----------------------------------------------------------------------------
(* sunbeam run <origin> [args...]: the RunE of NewRunCmd.  A path is the   *)
(* sequence of its elements.  What RunE does is the commands it has run,   *)
(* the names it has printed, the state of its temporary directory and the  *)
(* error it returns.                                                       *)

MaxArgs == 2     \* arguments after the origin

manifestName == "sunbeam.json"

Origins ==
    {<<"https:", "host", "run.sh">>, <<"https:", "host", "sunbeam.json">>,
     <<"ext">>, <<"ext", "sunbeam.json">>}

ArgWords == {"list", "x"}

\* command.SubCommands: name -> entrypoint
SubCommandMaps ==
    {<<>>, [n \in {"list"} |-> "list.sh"],
     [n \in {"list", "add"} |-> IF n = "list" THEN "list.sh" ELSE "add.sh"]}

\* what the world answers to the calls of RunE
RunEnvs ==
    [get        : {0, 200, 404},         \* the status; 0: http.Get failed
     tmp        : {"ok", "mkdir", "open", "copy", "close"},
     stat       : {"error", "dir", "file"},
     findRoot   : {"error", "ok"},
     parse      : {"error", "ok"},
     entrypoint : {"", "main.sh"},
     subcommands : SubCommandMaps,
     exit       : {0, 2}]

\* url.Parse(args[0]).Scheme
Scheme(origin) == IF origin[1] = "https:" THEN "https" ELSE ""

\* filepath.Base, filepath.Dir, filepath.Join
Base(path) == path[Len(path)]

Dir(path) == SubSeq(path, 1, Len(path) - 1)

Join(dir, name) == Append(dir, name)

\* error values
Nil == [kind |-> "nil", code |-> 0, text |-> ""]

ExitCodeError(code) == [kind |-> "ExitCodeError", code |-> code, text |-> ""]

Errorf(text) == [kind |-> "error", code |-> 0, text |-> text]

\* RunE returns err having run nothing
Fail(err) == [err |-> err, ran |-> <<>>, printed |-> {}, tmp |-> "none"]

\* runCommand(types.Command{Name, Args, Input}): the command is run once and
\* its failure is returned
runCommand(name, args, input, env) ==
    [err |-> IF env.exit = 0 THEN Nil ELSE Errorf("command failed"),
     ran |-> <<[name |-> name, args |-> args, input |-> input]>>,
     printed |-> {}, tmp |-> "none"]

\* findRoot(scriptPath): the manifest of the directory
findRoot(scriptPath) == Join(scriptPath, manifestName)

\* slices args[n:]
From(args, n) == SubSeq(args, n + 1, Len(args))

\* the dispatcher, lines 115-137
DispatchKeepsName(scriptPath, command, args, input, env) ==
    IF Len(args) < 2
    THEN [Fail(ExitCodeError(1)) EXCEPT !.printed = DOMAIN command.SubCommands]
    ELSE LET subcommand == args[2]
         IN  IF subcommand \in DOMAIN command.SubCommands
             THEN runCommand(Join(Dir(scriptPath), command.SubCommands[subcommand]),
                             From(args, 1), input, env)
             ELSE Fail(Errorf("subcommand not found"))

Dispatch(scriptPath, command, args, input, env) ==
    IF Len(args) < 2
    THEN [Fail(ExitCodeError(1)) EXCEPT !.printed = DOMAIN command.SubCommands]
    ELSE LET subcommand == args[2]
         IN  IF subcommand \in DOMAIN command.SubCommands
             THEN runCommand(Join(Dir(scriptPath), command.SubCommands[subcommand]),
                             From(args, 2), input, env)
             ELSE Fail(Errorf("subcommand not found"))

\* the parsed manifest, lines 107-137
ManifestDispatchFirst(scriptPath, command, args, input, env) ==
    IF command.Entrypoint # "" /\ DOMAIN command.SubCommands = {}
    THEN runCommand(Join(Dir(scriptPath), command.Entrypoint), From(args, 1),
                    input, env)
    ELSE Dispatch(scriptPath, command, args, input, env)

Manifest(scriptPath, command, args, input, env) ==
    IF command.Entrypoint # ""
    THEN runCommand(Join(Dir(scriptPath), command.Entrypoint), From(args, 1),
                    input, env)
    ELSE Dispatch(scriptPath, command, args, input, env)

\* ParseCommand(dir): the command the manifest describes
ParseCommand(env) ==
    [Entrypoint |-> env.entrypoint, SubCommands |-> env.subcommands]

\* a resolved local path, lines 94-113
Resolved(scriptPath, args, input, env) ==
    IF Base(scriptPath) # manifestName
    THEN runCommand(scriptPath, From(args, 1), input, env)
    ELSE IF env.parse = "error"
         THEN Fail(Errorf("could not parse command"))
         ELSE Manifest(scriptPath, ParseCommand(env), args, input, env)

\* a local origin, lines 78-92
Local(args, input, env) ==
    IF env.stat = "error" THEN Fail(Errorf("stat"))
    ELSE IF env.stat = "dir"
         THEN IF env.findRoot = "error"
              THEN Fail(Errorf("no manifest"))
              ELSE Resolved(findRoot(args[1]), args, input, env)
         ELSE Resolved(args[1], args, input, env)

\* defer os.RemoveAll(tmpDir): runs when RunE returns, however it returns
RemoveAllOnSuccess(ret) ==
    IF ret.err = Nil THEN [ret EXCEPT !.tmp = "removed"] ELSE ret

RemoveAllDeferred(ret) == [ret EXCEPT !.tmp = "removed"]

\* a remote origin, lines 41-75; tmp is what is left of the temporary
\* directory: "none" (never made), "dir", "file" (the directory and the
\* script in it) or "removed"
Remote(args, input, env) ==
    IF env.get = 0 THEN Fail(Errorf("could not fetch script"))
    ELSE IF env.get # 200 THEN Fail(Errorf("could not fetch script"))
    ELSE IF env.tmp = "mkdir" THEN Fail(Errorf("mkdirtemp"))
    ELSE RemoveAllDeferred(
            IF env.tmp = "open"
            THEN [Fail(Errorf("open")) EXCEPT !.tmp = "dir"]
            ELSE IF env.tmp = "copy"
            THEN [Fail(Errorf("copy")) EXCEPT !.tmp = "file"]
            ELSE IF env.tmp = "close"
            THEN [Fail(Errorf("close")) EXCEPT !.tmp = "file"]
            ELSE [runCommand(<<"tmp", "sunbeam-command">>, From(args, 1),
                             input, env) EXCEPT !.tmp = "file"])

\* RunE(cmd, args)
RunE(args, input, env) ==
    IF Scheme(args[1]) = "https"
    THEN Remote(args, input, env)
    ELSE Local(args, input, env)

\* sunbeam run is started with an origin and some arguments
InitRunCmd ==
    /\ InitModel
    /\ InitIdle
    /\ CmdIdleExcept("run")
    /\ \E origin \in Origins, n \in 0..MaxArgs :
           runArgs \in {<<origin>> \o rest : rest \in [1..n -> ArgWords]}
    /\ runInput \in {"", "stdin"}
    /\ runEnv \in RunEnvs
    /\ runRet = <<>>

\* RunE runs and returns
RunCmd ==
    /\ runRet = <<>>
    /\ runRet' = <<RunE(runArgs, runInput, runEnv)>>
    /\ UNCHANGED <<navVars, history, listVars, runVars, loaded, rootVars,
                   runArgs, runInput, runEnv, execVars, filterVars>>

SpecRunCmd == InitRunCmd /\ [][RunCmd]_vars

\* what the claims about sunbeam run speak of
Returned == runRet # <<>>

Ret == runRet[1]

Origin == runArgs[1]

Rest == Tail(runArgs)

IsRemote == Origin[1] = "https:"

\* the path the local steps arrive at
LocalPath ==
    IF runEnv.stat = "dir" THEN Origin \o <<"sunbeam.json">> ELSE Origin

ManifestDir == SubSeq(LocalPath, 1, Len(LocalPath) - 1)

ReachesPath ==
    /\ Returned
    /\ ~IsRemote
    /\ runEnv.stat # "error"
    /\ runEnv.stat = "dir" => runEnv.findRoot = "ok"

ReachesManifest ==
    /\ ReachesPath
    /\ LocalPath[Len(LocalPath)] = "sunbeam.json"
    /\ runEnv.parse = "ok"

ReachesDispatcher == ReachesManifest /\ runEnv.entrypoint = ""

RanOnce(name, args) ==
    Ret.ran = <<[name |-> name, args |-> args, input |-> runInput]>>

\* C14: the resolution takes the first class that matches, in the order
\* remote, directory, plain executable, manifest entrypoint, dispatcher.  A
\* manifest that declares an entrypoint has it run with all the arguments
\* after the origin and the input, whatever its subcommands map holds and
\* whatever the arguments are.
C14_EntrypointBeforeSubcommands ==
    Returned =>
        /\ IsRemote =>
               \A i \in DOMAIN Ret.ran :
                   Ret.ran[i].name = <<"tmp", "sunbeam-command">>
        /\ ReachesPath /\ LocalPath[Len(LocalPath)] # "sunbeam.json" =>
               RanOnce(LocalPath, Rest)
        /\ ReachesManifest /\ runEnv.entrypoint # "" =>
               /\ RanOnce(Append(ManifestDir, runEnv.entrypoint), Rest)
               /\ Ret.printed = {}
               /\ Ret.err.kind # "ExitCodeError"
        /\ ReachesDispatcher =>
               \A i \in DOMAIN Ret.ran :
                   \E n \in DOMAIN runEnv.subcommands :
                       Ret.ran[i].name = Append(ManifestDir, runEnv.subcommands[n])

C14_Witness ==
    /\ Returned
    /\ runArgs = <<<<"ext">>, "list", "x">>
    /\ runInput = "stdin"
    /\ runEnv.stat = "dir"
    /\ runEnv.entrypoint = "main.sh"
    /\ DOMAIN runEnv.subcommands = {"list", "add"}
    /\ Ret.ran = <<[name |-> <<"ext", "main.sh">>, args |-> <<"list", "x">>,
                    input |-> "stdin"]>>

\* C15: a manifest without entrypoint dispatches on the first argument: no
\* argument runs nothing and fails with the usage error of exit code 1,
\* having listed the subcommand names; an argument that is no key of the
\* subcommands map runs nothing and fails with another error; a key runs
\* its entrypoint once, with the arguments after it and the input.
C15_DispatcherOutcomes ==
    ReachesDispatcher =>
        /\ Len(runArgs) = 1 =>
               /\ Ret.ran = <<>>
               /\ Ret.err = [kind |-> "ExitCodeError", code |-> 1, text |-> ""]
               /\ Ret.printed = DOMAIN runEnv.subcommands
        /\ Len(runArgs) > 1 /\ runArgs[2] \notin DOMAIN runEnv.subcommands =>
               /\ Ret.ran = <<>>
               /\ Ret.err.kind = "error"
               /\ Ret.printed = {}
        /\ Len(runArgs) > 1 /\ runArgs[2] \in DOMAIN runEnv.subcommands =>
               /\ RanOnce(Append(ManifestDir, runEnv.subcommands[runArgs[2]]),
                          Tail(Rest))
               /\ Ret.err.kind # "ExitCodeError"

C15_Witness ==
    /\ ReachesDispatcher
    /\ runArgs = <<<<"ext", "sunbeam.json">>, "list", "x">>
    /\ runInput = "stdin"
    /\ Ret.ran = <<[name |-> <<"ext", "list.sh">>, args |-> <<"x">>,
                    input |-> "stdin"]>>

\* C16: for a remote origin, a response other than 200 is an error after
\* which no temporary file exists and nothing has run; and whenever the
\* temporary directory was made it is removed when RunE returns, whether the
\* script succeeded, the script failed, or the file could not be opened,
\* written or closed.
C16_TemporaryDirectoryRemoved ==
    Returned /\ IsRemote =>
        /\ runEnv.get # 200 =>
               /\ Ret.err.kind = "error"
               /\ Ret.tmp = "none"
               /\ Ret.ran = <<>>
        /\ runEnv.get = 200 /\ runEnv.tmp # "mkdir" => Ret.tmp = "removed"
        /\ runEnv.get = 200 /\ runEnv.tmp = "mkdir" =>
               Ret.tmp = "none" /\ Ret.ran = <<>>
        /\ Ret.ran # <<>> => runEnv.get = 200 /\ runEnv.tmp = "ok"

C16_Witness ==
    /\ Returned
    /\ IsRemote
    /\ runEnv.get = 200
    /\ runEnv.tmp = "copy"
    /\ Ret.err.kind = "error"
    /\ Ret.ran = <<>>
    /\ Ret.tmp = "removed"

----------------------------------------------------------------------------
(* The commands of the extensions: NewCustomCmd and the loop of Execute    *)
(* that registers them.                                                    *)

MaxCommands == 2     \* commands of an extension
MaxParams   == 2     \* params of a command

\* a Param by its declared type and the dynamic type of its default value
\* ("nil": no default)
ParamShapes ==
    {[type |-> "string", default |-> "nil"],
     [type |-> "boolean", default |-> "bool"],
     [type |-> "number", default |-> "nil"],
     [type |-> "boolean", default |-> "string"]}

ParamLists == UNION {[1..n -> ParamShapes] : n \in 0..MaxParams}

\* extension.Manifest.Commands: the Params of each command
Manifests == UNION {[1..n -> ParamLists] : n \in 0..MaxCommands}

\* an extension whose commands are all well-formed
NotesManifest == <<<<[type |-> "string", default |-> "nil"]>>>>

\* the switch on argument.Type, lines 205-228: the flag is registered or
\* NewCustomCmd returns the error
FlagDeferred(argument) == "nil"

Flag(argument) ==
    CASE argument.type = "string" ->
             IF argument.default # "nil" /\ argument.default # "string"
             THEN "invalid default value" ELSE "nil"
      [] argument.type = "boolean" ->
             IF argument.default # "nil" /\ argument.default # "bool"
             THEN "invalid default value" ELSE "nil"
      [] OTHER -> "unsupported argument type"

\* the loop over command.Params, lines 204-233: the first error
RECURSIVE Flags(_)
Flags(params) ==
    IF params = <<>> THEN "nil"
    ELSE LET err == Flag(Head(params))
         IN  IF err # "nil" THEN err ELSE Flags(Tail(params))

\* NewCustomCmd, lines 158-238, having added the commands before `at`: the
\* cobra command with the subcommands added, or nil and the error
RECURSIVE CustomCmdFrom(_, _, _, _)
CustomCmdFrom(name, commands, at, added) ==
    IF at > Len(commands)
    THEN [cmd |-> [name |-> name, commands |-> added], err |-> "nil"]
    ELSE LET err == Flags(commands[at])
         IN  IF err # "nil"
             THEN [cmd |-> "nil", err |-> err]
             ELSE CustomCmdFrom(name, commands, at + 1, added \cup {at})

NewCustomCmd(name, extension) == CustomCmdFrom(name, extension, 1, {})

\* the loop of Execute, lines 102-110, visiting the extensions in `order`:
\* the commands added to rootCmd, whether rootCmd.Execute() was reached,
\* and the error returned
RECURSIVE ExecuteFrom(_, _, _, _)
ExecuteFrom(exts, order, at, added) ==
    IF at > Len(order)
    THEN [err |-> "nil", added |-> added, executed |-> TRUE]
    ELSE LET r == NewCustomCmd(order[at], exts[order[at]])
         IN  IF r.err # "nil"
             THEN [err |-> r.err, added |-> added, executed |-> FALSE]
             ELSE ExecuteFrom(exts, order, at + 1, added \cup {r.cmd})

Execute(exts, order) == ExecuteFrom(exts, order, 1, {})

\* the process starts with some extensions installed
InitExec ==
    /\ InitModel
    /\ InitIdle
    /\ CmdIdleExcept("exec")
    /\ \E m \in Manifests, others \in SUBSET {"notes"} :
           extensions =
               [n \in {"git"} \cup others |->
                   IF n = "git" THEN m ELSE NotesManifest]
    /\ execRet = <<>>

\* Execute runs; `range extensions` visits the names in some order
RunExecute ==
    /\ execRet = <<>>
    /\ \E order \in RangeOrders(DOMAIN extensions) :
           execRet' = <<Execute(extensions, order)>>
    /\ UNCHANGED <<navVars, history, listVars, runVars, loaded, rootVars,
                   runCmdVars, extensions, filterVars>>

SpecExec == InitExec /\ [][RunExecute]_vars

\* a Param that the command surface cannot take
BadParam(p) ==
    \/ p.type \notin {"string", "boolean"}
    \/ p.type = "string" /\ p.default \notin {"nil", "string"}
    \/ p.type = "boolean" /\ p.default \notin {"nil", "bool"}

BadExtension(e) ==
    \E c \in DOMAIN extensions[e] :
        \E i \in DOMAIN extensions[e][c] : BadParam(extensions[e][c][i])

\* the commands a user can invoke once Execute has run
Invokable ==
    IF execRet[1].executed
    THEN UNION {{<<cmd.name, c>> : c \in cmd.commands} : cmd \in execRet[1].added}
    ELSE {}

\* C17: an extension with a Param of a type other than string or boolean,
\* or with a default value that is not of the declared type, makes Execute
\* fail before rootCmd.Execute() is reached: no command of that extension,
\* not even its well-formed ones, is registered or invokable.
C17_BadParamFailsStartup ==
    execRet # <<>> =>
        \A e \in DOMAIN extensions :
            BadExtension(e) =>
                /\ execRet[1].err # "nil"
                /\ ~execRet[1].executed
                /\ \A cmd \in execRet[1].added : cmd.name # e
                /\ \A c \in DOMAIN extensions[e] : <<e, c>> \notin Invokable

\* the first command of git is well-formed, the second has a number Param
C17_Witness ==
    /\ execRet # <<>>
    /\ DOMAIN extensions = {"git", "notes"}
    /\ Len(extensions["git"]) = 2
    /\ ~(\E i \in DOMAIN extensions["git"][1] : BadParam(extensions["git"][1][i]))
    /\ extensions["git"][2] = <<[type |-> "number", default |-> "nil"]>>
    /\ execRet[1].err = "unsupported argument type"
    /\ \E cmd \in execRet[1].added : cmd.name = "notes"
    /\ Invokable = {}

----------------------------------------------------------------------------
(* Completion events and the page stack *)

\* C18: the completion event of a unit of deferred work affects the page
\* that scheduled it, whatever has been pushed or popped since: when the
\* result of a command runner's init work is handled, the runner, if it is
\* still on the stack, is no longer loading, and every other page of the
\* stack is as it was.
C18_CompletionReachesItsPage ==
    [][lastMsg'.type = "result" =>
          \A i \in 1..Len(pages) :
              i <= Len(pages') =>
                  IF pages[i].name = lastMsg'.page
                  THEN pages'[i].content # "loading"
                  ELSE pages'[i] = pages[i]]_vars

----------------------------------------------------------------------------
(* Accesses to the history map *)

\* run action k is writing the map (history[id] = ...)
Writing(k) == rpc[k] = "assigning"

\* run action k is reading the map (json.Marshal(history))
Reading(k) == rpc[k] = "marshalling"

\* C19: the history map is never accessed by two activities at once: while
\* the Cmd of one run action writes the map, no other Cmd writes or
\* serialises it.
C19_HistoryAccessedByOneAtATime ==
    \A k, q \in DOMAIN rpc :
        k # q => ~(Writing(k) /\ (Writing(q) \/ Reading(q)))

----------------------------------------------------------------------------
(* The filter command: a list item from the tokens of a row and the        *)
(* indexes of --with-nth.  An index expression out of range is a run-time  *)
(* panic, which ends the command.                                          *)

MaxTokens == 2     \* tokens of a row
MaxNths   == 3     \* indexes of --with-nth

TokenWords == {"a", "b"}

\* the integers an index of --with-nth can be
Indexes == (0 - 1)..(MaxTokens + 1)

\* tokens[i], i counting from 0
Index(toks, i) ==
    IF i < 0 \/ i >= Len(toks)
    THEN [panic |-> TRUE, value |-> ""]
    ELSE [panic |-> FALSE, value |-> toks[i + 1]]

\* safeGet(tokens, idx)
safeGet(toks, idx) ==
    IF idx = 0 THEN [panic |-> FALSE, value |-> ""]
    ELSE IF idx > Len(toks) THEN [panic |-> FALSE, value |-> ""]
    ELSE Index(toks, idx - 1)

\* the branch of --with-nth, lines 70-80: title, subtitle and accessories
WithNth(toks, ns) ==
    LET title == safeGet(toks, ns[1])
        subtitle == IF Len(ns) > 1 THEN safeGet(toks, ns[2])
                    ELSE [panic |-> FALSE, value |-> ""]
        accessories == [i \in 1..(Len(ns) - 2) |-> safeGet(toks, ns[i + 2])]
    IN  [aborted |-> \/ title.panic
                     \/ subtitle.panic
                     \/ \E i \in DOMAIN accessories : accessories[i].panic,
         title |-> title.value,
         subtitle |-> subtitle.value,
         accessories |-> [i \in DOMAIN accessories |-> accessories[i].value]]

\* a row has been split and --with-nth has been given
InitFilter ==
    /\ InitModel
    /\ InitIdle
    /\ CmdIdleExcept("filter")
    /\ \E n \in 1..MaxTokens : tokens \in [1..n -> TokenWords]
    /\ \E n \in 1..MaxNths : nths \in [1..n -> Indexes]
    /\ listItem = <<>>

\* the list item of the row is built
BuildListItem ==
    /\ listItem = <<>>
    /\ listItem' = <<WithNth(tokens, nths)>>
    /\ UNCHANGED <<navVars, history, listVars, runVars, loaded, rootVars,
                   runCmdVars, execVars, tokens, nths>>

SpecFilter == InitFilter /\ [][BuildListItem]_vars

\* the idx-th token counting from 1, the empty string for every other idx
NthOrEmpty(idx) ==
    IF 1 <= idx /\ idx <= Len(tokens) THEN tokens[idx] ELSE ""

\* C20: safeGet is total: it gives the idx-th token for 1 <= idx <=
\* len(tokens) and the empty string for every other integer, so building
\* the list item of a row never aborts, whatever the indexes are.
C20_SafeGetTotal ==
    listItem # <<>> =>
        /\ ~listItem[1].aborted
        /\ listItem[1].title = NthOrEmpty(nths[1])
        /\ Len(nths) > 1 => listItem[1].subtitle = NthOrEmpty(nths[2])
        /\ \A i \in DOMAIN listItem[1].accessories :
               listItem[1].accessories[i] = NthOrEmpty(nths[i + 2])

====
